---- MODULE Spec2Model ----
(***************************************************************************)
(* State-machine model of tg-to-md (src/main.py, src/ai.py): the SQLite    *)
(* store (messages, files, tags, meta), the three commands get-messages    *)
(* (sync), download-files (fetch-media) and add-tags (tag).                *)
(*                                                                         *)
(* Text values (message text, file names, MIME types, JSON keys) are       *)
(* sequences of atoms; an atom is a one-character string for every         *)
(* character the code inspects (whitespace, '/', the characters of the     *)
(* sanitising regex, digits) or a run of ordinary characters.              *)
(***************************************************************************)
EXTENDS Integers, Sequences, FiniteSets, TLC

VARIABLES
    messages,   \* table messages: set of rows
    files,      \* table files: sequence of rows, position = AUTOINCREMENT id
    tags,       \* table tags: set of rows
    meta,       \* table meta: set of rows
    pc,         \* the command in progress and its position
    status,     \* exit status of the last finished command
    syncq,      \* get_messages: fetched messages not yet processed
    tasks,      \* download_files: one record per download_single_file task
    sem,        \* download_files: asyncio.Semaphore value
    tagrun,     \* add_tags: locals (overwrite, articles_list, i, ass_id, thread_id)
    openai,     \* classification collaborator: the assistants and threads created so
                \* far, the requests and responses of the latest tag run, and the
                \* tags it gives an article when it looks at that article alone
    hist        \* observation only, of the fetch-media runs since the last sync:
                \* runs: how many have finished (2 stands for 2 or more);
                \* clean: every transfer of the last finished one saw its last chunk;
                \* started: the latest one has started a transfer

vars == <<messages, files, tags, meta, pc, status, syncq, tasks, sem, tagrun, openai, hist>>

----------------------------------------------------------------------------
(* Program constants *)

DOWNLOAD_CONCURRENCY == 5

BATCH_SIZE == 50

FILES_DIR == <<"telegram_export", "/", "files", "/">>

MARKDOWN_FILES_PATH == <<"files">>

----------------------------------------------------------------------------
(* Bounds of the model *)

\* message ids of the small stores are 1..MaxMsgId
MaxMsgId == 1

\* no more than MaxFileRows rows in table files in the small stores
MaxFileRows == 2

\* the raw file names of the sanitising runs have at most MaxName atoms
MaxName == 2

\* the runs over an empty store fetch the ids 1..MaxIngest
MaxIngest == 3

\* a sync fetches at most MaxFetch messages
MaxFetch == 1

\* a downloaded media has at most MaxBytes chunks
MaxBytes == 2

\* the large fetch-media runs have up to DOWNLOAD_CONCURRENCY + ExtraFiles pending files
ExtraFiles == 1

\* the large tag runs have up to MaxBatches * BATCH_SIZE + 1 messages
MaxBatches == 2

----------------------------------------------------------------------------
(* Generic helpers *)

Range(s) == {s[i] : i \in 1..Len(s)}

Min(a, b) == IF a <= b THEN a ELSE b

\* s[a..b] as Python slices s[a-1:b]: empty when a > b
Slice(s, a, b) == IF a > b THEN <<>> ELSE SubSeq(s, a, b)

\* the sequences over S of length at most n without repeated elements
RECURSIVE SeqsNoRepeat(_, _)
SeqsNoRepeat(S, n) ==
    IF n = 0 THEN {<<>>}
    ELSE LET shorter == SeqsNoRepeat(S, n - 1)
         IN shorter \cup
            {Append(s, x) : s \in {t \in shorter : Len(t) = n - 1}, x \in S}

----------------------------------------------------------------------------
(* Text conversions *)

DigitAtoms == <<"0", "1", "2", "3", "4", "5", "6", "7", "8", "9">>

\* str(n) / the key json.dumps writes for the int key n
RECURSIVE IntToStr(_)
IntToStr(n) ==
    IF n < 10 THEN <<DigitAtoms[n + 1]>>
    ELSE Append(IntToStr(n \div 10), DigitAtoms[(n % 10) + 1])

IsDigit(a) == \E d \in 1..10 : DigitAtoms[d] = a

DigitValue(a) == (CHOOSE d \in 1..10 : DigitAtoms[d] = a) - 1

RECURSIVE DigitsToInt(_)
DigitsToInt(s) ==
    IF Len(s) = 0 THEN 0
    ELSE 10 * DigitsToInt(SubSeq(s, 1, Len(s) - 1)) + DigitValue(s[Len(s)])

\* SQLite INTEGER column affinity applied to a bound text value (the keys of a
\* parsed JSON object are str): text that is a well-formed integer literal is
\* stored as that integer, other text as is
IntegerAffinity(v) ==
    IF Len(v) > 0 /\ \A i \in 1..Len(v) : IsDigit(v[i]) THEN DigitsToInt(v)
    ELSE v

IsSpace(a) == a \in {" ", "\n", "\t"}

\* str.strip()
RECURSIVE LStrip(_)
LStrip(s) == IF Len(s) > 0 /\ IsSpace(s[1]) THEN LStrip(Tail(s)) ELSE s

RECURSIVE RStrip(_)
RStrip(s) ==
    IF Len(s) > 0 /\ IsSpace(s[Len(s)]) THEN RStrip(SubSeq(s, 1, Len(s) - 1)) ELSE s

Strip(s) == RStrip(LStrip(s))

\* Python truth value of a str / list
Truthy(s) == Len(s) > 0

\* json.dumps of a list of tags
JsonDumpsList(l) == <<"[">> \o l \o <<"]">>

----------------------------------------------------------------------------
(* Optional values: <<>> is None, <<x>> is the value x *)

None == <<>>

Some(x) == <<x>>

IsNone(o) == Len(o) = 0

----------------------------------------------------------------------------
(* Persistent store: pure operations on the tables *)

\* message.to_json(): the fields of the message the program reads back
ToJson(msg) ==
    [id |-> msg.id, message |-> msg.message, date |-> msg.date, media |-> msg.media]

\* json.loads(data).get("message", "")
JsonMessage(json_data) == json_data.message

\* an INSERT ... ON CONFLICT (message_id) DO UPDATE SET json_data, date: the stored
\* row keeps its file_downloaded
SaveMessageKeepsFlag(ms, msg) ==
    {r \in ms : r.message_id # msg.id}
        \cup {[message_id |-> msg.id, json_data |-> ToJson(msg),
               file_downloaded |->
                  IF \E r \in ms : r.message_id = msg.id
                  THEN (CHOOSE r \in ms : r.message_id = msg.id).file_downloaded
                  ELSE 0,
               date |-> msg.date]}

\* save_message_to_db: INSERT OR REPLACE INTO messages (message_id, json_data, date);
\* the conflicting row is deleted, file_downloaded takes its DEFAULT 0
SaveMessageToDb(ms, msg) ==
    {r \in ms : r.message_id # msg.id}
        \cup {[message_id |-> msg.id, json_data |-> ToJson(msg),
               file_downloaded |-> 0, date |-> msg.date]}

\* the integers of a finite set, the highest first
Descending(ints) ==
    IF ints = {} THEN <<>>
    ELSE LET hi == CHOOSE i \in ints : \A j \in ints : j <= i
             lo == CHOOSE i \in ints : \A j \in ints : i <= j
         IN SelectSeq([k \in 1..(hi - lo + 1) |-> hi + 1 - k], LAMBDA i : i \in ints)

\* get_all_messages_from_db: SELECT message_id, json_data FROM messages
\* ORDER BY message_id DESC (message_id is the primary key)
GetAllMessagesFromDb(ms) ==
    LET ids == Descending({r.message_id : r \in ms})
    IN [k \in 1..Len(ids) |->
          <<ids[k], (CHOOSE r \in ms : r.message_id = ids[k]).json_data>>]

\* an INSERT OR IGNORE under UNIQUE (message_id, file_path)
RegisterFileOnce(fs, message_id, file_path, markdown_path, file_type) ==
    IF \E k \in 1..Len(fs) : fs[k].message_id = message_id /\ fs[k].file_path = file_path
    THEN fs
    ELSE Append(fs, [id |-> Len(fs) + 1, message_id |-> message_id, file_path |-> file_path,
                     markdown_path |-> markdown_path, file_type |-> file_type,
                     downloaded |-> 0])

\* register_file_in_db: INSERT INTO files; downloaded takes its DEFAULT 0
RegisterFileInDb(fs, message_id, file_path, markdown_path, file_type) ==
    Append(fs, [id |-> Len(fs) + 1, message_id |-> message_id, file_path |-> file_path,
                markdown_path |-> markdown_path, file_type |-> file_type,
                downloaded |-> 0])

\* the first statement as a DELETE followed by an INSERT with downloaded = 1: the
\* marked rows get new ids
MarkFileRowsReinsert(fs, message_id, file_path) ==
    LET hit(f) == f.message_id = message_id /\ f.file_path = file_path
        kept == SelectSeq(fs, LAMBDA f : ~hit(f))
        gone == SelectSeq(fs, hit)
    IN kept \o [k \in 1..Len(gone) |->
                  [gone[k] EXCEPT !.id = Len(fs) + k, !.downloaded = 1]]

\* update_file_downloaded, first statement:
\* UPDATE files SET downloaded = 1 WHERE message_id = ? AND file_path = ?
MarkFileRows(fs, message_id, file_path) ==
    [k \in 1..Len(fs) |->
        IF fs[k].message_id = message_id /\ fs[k].file_path = file_path
        THEN [fs[k] EXCEPT !.downloaded = 1]
        ELSE fs[k]]

\* SELECT COUNT(*) FROM files WHERE message_id = ? AND downloaded = 0
CountUndownloaded(fs, message_id) ==
    Cardinality({k \in 1..Len(fs) : fs[k].message_id = message_id /\ fs[k].downloaded = 0})

\* the second statement without its subquery condition
SetMessageFlagAlways(ms, fs, message_id) ==
    {IF r.message_id = message_id THEN [r EXCEPT !.file_downloaded = 1] ELSE r : r \in ms}

\* update_file_downloaded, second statement: UPDATE messages SET file_downloaded = 1
\* WHERE message_id = ? AND (SELECT COUNT(*) ... downloaded = 0) = 0
SetMessageFlag(ms, fs, message_id) ==
    {IF r.message_id = message_id /\ CountUndownloaded(fs, message_id) = 0
     THEN [r EXCEPT !.file_downloaded = 1]
     ELSE r : r \in ms}

\* get_files_to_download: files JOIN messages WHERE f.downloaded = 0
GetFilesToDownloadAll(ms, fs) ==
    LET joined == SelectSeq(fs, LAMBDA f : \E m \in ms : m.message_id = f.message_id)
    IN [k \in 1..Len(joined) |->
          <<joined[k].message_id, joined[k].file_path,
            (CHOOSE m \in ms : m.message_id = joined[k].message_id).json_data>>]

GetFilesToDownload(ms, fs) ==
    LET pending == SelectSeq(fs, LAMBDA f : f.downloaded = 0
                                  /\ \E m \in ms : m.message_id = f.message_id)
    IN [k \in 1..Len(pending) |->
          <<pending[k].message_id, pending[k].file_path,
            (CHOOSE m \in ms : m.message_id = pending[k].message_id).json_data>>]

\* get_tags_for_message: fetchone of SELECT tags FROM tags WHERE message_id = ?
GetTagsForMessage(ts, message_id) ==
    IF \E r \in ts : r.message_id = message_id
    THEN Some((CHOOSE r \in ts : r.message_id = message_id).tags)
    ELSE None

\* store_tags_for_message: INSERT OR REPLACE INTO tags (message_id, '', json.dumps(tags));
\* the primary key is (message_id, language)
StoreTagsForMessage(ts, message_id, taglist) ==
    LET mid == IntegerAffinity(message_id)
    IN {r \in ts : ~(r.message_id = mid /\ r.language = "")}
          \cup {[message_id |-> mid, language |-> "", tags |-> JsonDumpsList(taglist)]}

\* save_meta without the commit: the row is lost when the connection closes
SaveMetaLost(mt, key, value) == mt

\* get_meta
GetMeta(mt, key) ==
    IF \E r \in mt : r.key = key
    THEN Some((CHOOSE r \in mt : r.key = key).value)
    ELSE None

\* save_meta: INSERT OR REPLACE INTO meta
SaveMeta(mt, key, value) ==
    {r \in mt : r.key # key} \cup {[key |-> key, value |-> value]}

----------------------------------------------------------------------------
(* Ingestion: identify_media_files *)

IllegalAtoms == {"\\", "/", "*", "?", ":", "\"", "<", ">", "|"}

\* re.sub with count=1: only the first illegal character is replaced
SanitizeFirst(name) ==
    [k \in 1..Len(name) |->
        IF name[k] \in IllegalAtoms /\ \A j \in 1..(k - 1) : name[j] \notin IllegalAtoms
        THEN "_" ELSE name[k]]

\* re.sub(r'[\\/*?:"<>|]', '_', file_name)
Sanitize(name) == [k \in 1..Len(name) |-> IF name[k] \in IllegalAtoms THEN "_" ELSE name[k]]

\* mime_type.split('/')[-1]
RECURSIVE LastSegment(_)
LastSegment(s) ==
    IF \E k \in 1..Len(s) : s[k] = "/"
    THEN LastSegment(SubSeq(s, (CHOOSE k \in 1..Len(s) : s[k] = "/"
                                   /\ \A j \in 1..(k - 1) : s[j] # "/") + 1, Len(s)))
    ELSE s

\* mime_type.split('/')[-1] if '/' in mime_type else 'file'
Extension(mime_type) ==
    IF \E k \in 1..Len(mime_type) : mime_type[k] = "/" THEN LastSegment(mime_type)
    ELSE <<"file">>

\* mime_type.startswith('image/')
StartsWithImage(mime_type) ==
    Len(mime_type) >= 2 /\ mime_type[1] = "image" /\ mime_type[2] = "/"

\* the first attribute with a truthy file_name, if any (lines 206-210)
RECURSIVE FirstFileName(_)
FirstFileName(attributes) ==
    IF Len(attributes) = 0 THEN None
    ELSE IF attributes[1].has_file_name /\ Len(attributes[1].file_name) > 0
         THEN Some(attributes[1].file_name)
         ELSE FirstFileName(Tail(attributes))

\* the document's file name before sanitising (lines 206-214)
DocumentFileName(msg) ==
    LET given == FirstFileName(msg.media.attributes)
    IN IF ~IsNone(given) THEN given[1]
       ELSE IntToStr(msg.id) \o <<"_document", ".">> \o Extension(msg.media.mime_type[1])

\* whether the MessageMediaDocument branch raises: document.mime_type is None
\* ('/' in None, None.startswith)
DocumentRaises(msg) == IsNone(msg.media.mime_type)

\* str(FILES_DIR / file_name) for a name without '/': pathlib drops a component "."
FilePath(file_name) ==
    IF file_name = <<".">> THEN SubSeq(FILES_DIR, 1, Len(FILES_DIR) - 1)
    ELSE FILES_DIR \o file_name

\* identify_media_files: the table files after the call
IdentifyMediaFiles(fs, msg) ==
    CASE msg.media.type = "MessageMediaPhoto" ->
           LET file_name == IntToStr(msg.id) \o <<"_photo", ".", "jpg">>
           IN RegisterFileInDb(fs, msg.id, FilePath(file_name),
                               MARKDOWN_FILES_PATH \o <<"/">> \o file_name, "photo")
      [] msg.media.type = "MessageMediaDocument" ->
           IF DocumentRaises(msg) THEN fs
           ELSE LET file_name == Sanitize(DocumentFileName(msg))
                IN RegisterFileInDb(fs, msg.id, FilePath(file_name),
                                    MARKDOWN_FILES_PATH \o <<"/">> \o file_name,
                                    IF StartsWithImage(msg.media.mime_type[1])
                                    THEN "image" ELSE "document")
      [] OTHER -> fs

----------------------------------------------------------------------------
(* Initial state of a process over a given store *)

\* before: the table tags when the run started (observation only)
NoTagRun == [overwrite |-> FALSE, articles_list |-> <<>>, i |-> 0,
             ass_id |-> None, thread_id |-> None, before |-> {}]

NoHist == [runs |-> 0, clean |-> TRUE, started |-> FALSE]

InitWith(ms, fs, ts, mt, classify) ==
    /\ messages = ms
    /\ files = fs
    /\ tags = ts
    /\ meta = mt
    /\ pc = "idle"
    /\ status = "ok"
    /\ syncq = <<>>
    /\ tasks = <<>>
    /\ sem = 0
    /\ tagrun = NoTagRun
    /\ openai = [assistants |-> 0, threads |-> 0, requests |-> <<>>, responses |-> <<>>,
                 classify |-> classify]
    /\ hist = NoHist

\* init_db on a fresh database file: four empty tables
Init == InitWith({}, <<>>, {}, {}, <<>>)

----------------------------------------------------------------------------
(* sync: get_messages *)

\* client.get_messages("me", limit): the fetched messages become the loop's sequence
SyncStart(fetches) ==
    /\ pc = "idle"
    /\ \E msgs \in fetches :
          /\ Len(files) + Len(msgs) <= MaxFileRows
          /\ syncq' = msgs
    /\ pc' = "sync"
    /\ hist' = NoHist
    /\ UNCHANGED <<messages, files, tags, meta, status, tasks, sem, tagrun, openai>>

\* a plain INSERT: sqlite3.IntegrityError when the id is already stored
SaveRaisesOnConflict(ms, msg) == \E r \in ms : r.message_id = msg.id

\* whether save_message_to_db raises: INSERT OR REPLACE resolves the conflict on
\* the primary key, on neither path is there a constraint to violate
SaveRaises(ms, msg) == FALSE

\* whether identify_media_files raises inside its try block for this message
MediaRaises(msg) == msg.media.type = "MessageMediaDocument" /\ DocumentRaises(msg)

\* the loop without the handlers of lines 220 and 245: an exception of
\* identify_media_files leaves the loop
RestUnlessRaised(q) == IF MediaRaises(Head(q)) THEN <<>> ELSE Tail(q)

\* lines 240-246: the messages left to the loop after an iteration, whether the
\* iteration raised (the handlers of lines 220 and 245 swallow it) or not
Rest(q) == Tail(q)

\* one iteration of the loop: save_message_to_db, then identify_media_files;
\* an exception of save_message_to_db is caught at line 245 and ends the iteration
SyncStep ==
    /\ pc = "sync"
    /\ Len(syncq) > 0
    /\ LET msg == Head(syncq)
       IN IF SaveRaises(messages, msg)
          THEN UNCHANGED <<messages, files>>
          ELSE /\ messages' = SaveMessageToDb(messages, msg)
               /\ files' = IdentifyMediaFiles(files, msg)
    /\ syncq' = Rest(syncq)
    /\ UNCHANGED <<tags, meta, pc, status, tasks, sem, tagrun, openai, hist>>

\* an iteration in which register_file_in_db raises (sqlite3.Error): the row of the
\* message is committed (line 129), the exception is caught at line 220
SyncStepRegisterFails ==
    /\ pc = "sync"
    /\ Len(syncq) > 0
    /\ LET msg == Head(syncq)
       IN /\ ~SaveRaises(messages, msg)
          /\ IdentifyMediaFiles(files, msg) # files
          /\ messages' = SaveMessageToDb(messages, msg)
    /\ syncq' = Rest(syncq)
    /\ UNCHANGED <<files, tags, meta, pc, status, tasks, sem, tagrun, openai, hist>>

\* the loop is over: asyncio.run returns
SyncEnd ==
    /\ pc = "sync"
    /\ Len(syncq) = 0
    /\ pc' = "idle"
    /\ status' = "ok"
    /\ UNCHANGED <<messages, files, tags, meta, syncq, tasks, sem, tagrun, openai, hist>>

----------------------------------------------------------------------------
(* fetch-media: download_files *)

NewTask(f) == [message_id |-> f[1], file_path |-> f[2], st |-> "waiting", marked |-> FALSE]

\* _download_files up to asyncio.gather: no pending file, or one task per pending file
DownloadStart ==
    /\ pc = "idle"
    /\ LET todo == GetFilesToDownload(messages, files)
       IN \/ /\ Len(todo) = 0
             /\ pc' = "idle"
             /\ status' = "ok"
             /\ tasks' = <<>>
             /\ sem' = 0
             /\ hist' = [runs |-> Min(hist.runs + 1, 2), clean |-> TRUE, started |-> FALSE]
          \/ /\ Len(todo) > 0
             /\ pc' = "download"
             /\ tasks' = [k \in 1..Len(todo) |-> NewTask(todo[k])]
             /\ sem' = DOWNLOAD_CONCURRENCY
             /\ hist' = [hist EXCEPT !.started = FALSE]
             /\ UNCHANGED status
    /\ UNCHANGED <<messages, files, tags, meta, syncq, tagrun, openai>>

\* Semaphore.acquire without the test of the value
CanAcquireAlways(value) == TRUE

\* asyncio.Semaphore.acquire returns only while the value is positive
CanAcquire(value) == value > 0

\* async with semaphore: the task gets a slot
Acquire(t) ==
    /\ pc = "download"
    /\ tasks[t].st = "waiting"
    /\ CanAcquire(sem)
    /\ sem' = sem - 1
    /\ tasks' = [tasks EXCEPT ![t].st = "resolving"]
    /\ hist' = [hist EXCEPT !.started = TRUE]
    /\ UNCHANGED <<messages, files, tags, meta, pc, status, syncq, tagrun, openai>>

\* the async with block left without Semaphore.release
LeaveKeepsSlot(t) ==
    /\ sem' = sem
    /\ tasks' = [tasks EXCEPT ![t].st = "done"]

\* the task leaves the async with block: the slot is released
Leave(t) ==
    /\ sem' = sem + 1
    /\ tasks' = [tasks EXCEPT ![t].st = "done"]

\* client(GetMessagesRequest(id=[message_id])) returns the message: download_media starts
ResolveOk(t) ==
    /\ pc = "download"
    /\ tasks[t].st = "resolving"
    /\ tasks' = [tasks EXCEPT ![t].st = "streaming"]
    /\ UNCHANGED <<messages, files, tags, meta, pc, status, syncq, sem, tagrun, openai, hist>>

\* GetMessagesRequest returns no message (line 257: return) or raises (line 264)
ResolveFail(t) ==
    /\ pc = "download"
    /\ tasks[t].st = "resolving"
    /\ Leave(t)
    /\ UNCHANGED <<messages, files, tags, meta, pc, status, syncq, tagrun, openai, hist>>

\* line 187 without the test: every progress callback marks the file
IsLastChunkAlways(current, total) == TRUE

\* line 187: current == total
IsLastChunk(current, total) == current = total

\* download_media calls the progress callback after a chunk: download_callback;
\* update_file_downloaded is one transaction inside this synchronous call
Callback(t) ==
    /\ pc = "download"
    /\ tasks[t].st = "streaming"
    /\ \E total \in 1..MaxBytes : \E current \in 1..total :
          IF IsLastChunk(current, total)
          THEN /\ files' = MarkFileRows(files, tasks[t].message_id, tasks[t].file_path)
               /\ messages' = SetMessageFlag(messages, files', tasks[t].message_id)
               /\ tasks' = [tasks EXCEPT ![t].marked = current = total]
          ELSE UNCHANGED <<messages, files, tasks>>
    /\ UNCHANGED <<tags, meta, pc, status, syncq, sem, tagrun, openai, hist>>

\* download_media returns: after the last chunk, or with nothing downloaded when
\* the message has no media left
StreamEnd(t) ==
    /\ pc = "download"
    /\ tasks[t].st = "streaming"
    /\ Leave(t)
    /\ UNCHANGED <<messages, files, tags, meta, pc, status, syncq, tagrun, openai, hist>>

\* download_media raises: caught at line 264
StreamFail(t) ==
    /\ pc = "download"
    /\ tasks[t].st = "streaming"
    /\ Leave(t)
    /\ UNCHANGED <<messages, files, tags, meta, pc, status, syncq, tagrun, openai, hist>>

\* asyncio.gather returns: every task has finished
DownloadEnd ==
    /\ pc = "download"
    /\ \A t \in 1..Len(tasks) : tasks[t].st = "done"
    /\ pc' = "idle"
    /\ status' = "ok"
    /\ hist' = [hist EXCEPT !.runs = Min(@ + 1, 2),
                            !.clean = \A t \in 1..Len(tasks) : tasks[t].marked]
    /\ tasks' = <<>>
    /\ sem' = 0
    /\ UNCHANGED <<messages, files, tags, meta, syncq, tagrun, openai>>

----------------------------------------------------------------------------
(* tag: add_tags *)

\* lines 471-472: the stripped text of every message, the empty ones dropped
\* (a sequence of <<message_id, text>> in the order of get_all_messages_from_db)
NonEmptyArticles(ms) ==
    LET all == GetAllMessagesFromDb(ms)
        stripped == [k \in 1..Len(all) |-> <<all[k][1], Strip(JsonMessage(all[k][2]))>>]
    IN SelectSeq(stripped, LAMBDA a : Truthy(a[2]))

\* lines 471-472 only, the test of line 473-474 left out
ArticlesNoTagFilter(ms, ts, overwrite) == NonEmptyArticles(ms)

\* lines 471-474: the candidates of a run
Articles(ms, ts, overwrite) ==
    IF overwrite THEN NonEmptyArticles(ms)
    ELSE SelectSeq(NonEmptyArticles(ms),
                   LAMBDA a : IsNone(GetTagsForMessage(ts, a[1]))
                              \/ ~Truthy(GetTagsForMessage(ts, a[1])[1]))

\* the slice one element short: articles_list[i:i+49]
BatchShort(articles_list, i) ==
    Slice(articles_list, i + 1, Min(i + BATCH_SIZE - 1, Len(articles_list)))

\* line 491: articles_list[i:i+50]
Batch(articles_list, i) ==
    Slice(articles_list, i + 1, Min(i + BATCH_SIZE, Len(articles_list)))

\* line 492 and ai.py line 35: json.dumps({k: v for k, v in batch}), keys become strings
Request(batch) ==
    [key \in {IntToStr(batch[k][1]) : k \in 1..Len(batch)} |->
        (CHOOSE a \in Range(batch) : IntToStr(a[1]) = key)[2]]

\* the keys of a parsed response in the order of the loop of line 493 (the order of
\* the JSON object; taken here by increasing id)
ItemsOrder(result) ==
    LET ids == Descending({DigitsToInt(key) : key \in DOMAIN result})
    IN [k \in 1..Len(ids) |->
          CHOOSE key \in DOMAIN result : DigitsToInt(key) = ids[Len(ids) + 1 - k]]

\* lines 494-495 without the test of None: a null value is stored as an empty list
StoreItemAlways(ts, key, value) ==
    StoreTagsForMessage(ts, key, IF IsNone(value) THEN <<>> ELSE value[1])

\* lines 494-495: if tags is not None: store_tags_for_message(message_id, tags)
StoreItem(ts, key, value) ==
    IF IsNone(value) THEN ts ELSE StoreTagsForMessage(ts, key, value[1])

\* lines 493-495: store the tags of every id of the response whose value is not
\* None. Item k of the loop writes the record r with <<k, r>> in written (if any),
\* and a record stays until a later item writes one with its primary key.
HandleResult(ts, result) ==
    LET keys == ItemsOrder(result)
        written ==
            UNION {{<<k, r>> : r \in StoreItem({}, keys[k], result[keys[k]])} :
                      k \in 1..Len(keys)}
        Replaced(r, from) ==
            \E w \in written :
               w[1] >= from /\ w[2].message_id = r.message_id /\ w[2].language = r.language
    IN {r \in ts : ~Replaced(r, 1)}
          \cup {w[2] : w \in {v \in written : ~Replaced(v[2], v[1] + 1)}}

\* add_tags up to line 474; no message in the database: return
TagStart ==
    /\ pc = "idle"
    /\ \E overwrite \in BOOLEAN :
          IF messages = {}
          THEN /\ pc' = "idle"
               /\ status' = "ok"
               /\ openai' = [openai EXCEPT !.requests = <<>>, !.responses = <<>>]
               /\ UNCHANGED tagrun
          ELSE /\ pc' = "tag_assistant"
               /\ tagrun' = [NoTagRun EXCEPT !.overwrite = overwrite,
                                !.articles_list = Articles(messages, tags, overwrite),
                                !.before = tags]
               /\ openai' = [openai EXCEPT !.requests = <<>>, !.responses = <<>>]
               /\ UNCHANGED status
    /\ UNCHANGED <<messages, files, tags, meta, syncq, tasks, sem, hist>>

\* the command ends with an exception
Abort ==
    /\ pc' = "idle"
    /\ status' = "fail"
    /\ tagrun' = NoTagRun

\* lines 476-480: the stored assistant id, or a new assistant whose id is saved
TagAssistant ==
    /\ pc = "tag_assistant"
    /\ LET ass_id == GetMeta(meta, "assistant_id")
       IN \/ /\ ~IsNone(ass_id)
             /\ tagrun' = [tagrun EXCEPT !.ass_id = ass_id]
             /\ pc' = "tag_thread"
             /\ UNCHANGED <<meta, openai, status>>
          \/ /\ IsNone(ass_id)
             /\ openai' = [openai EXCEPT !.assistants = @ + 1]
             /\ meta' = SaveMeta(meta, "assistant_id", <<"asst", openai'.assistants>>)
             /\ tagrun' = [tagrun EXCEPT !.ass_id = Some(<<"asst", openai'.assistants>>)]
             /\ pc' = "tag_thread"
             /\ UNCHANGED status
          \/ /\ IsNone(ass_id)
             /\ Abort
             /\ UNCHANGED <<meta, openai>>
    /\ UNCHANGED <<messages, files, tags, syncq, tasks, sem, hist>>

\* lines 482-486: the stored thread id, or a new thread whose id is saved
TagThread ==
    /\ pc = "tag_thread"
    /\ LET thread_id == GetMeta(meta, "thread_id")
       IN \/ /\ ~IsNone(thread_id)
             /\ tagrun' = [tagrun EXCEPT !.thread_id = thread_id]
             /\ pc' = "tag_batches"
             /\ UNCHANGED <<meta, openai, status>>
          \/ /\ IsNone(thread_id)
             /\ openai' = [openai EXCEPT !.threads = @ + 1]
             /\ meta' = SaveMeta(meta, "thread_id", <<"thread", openai'.threads>>)
             /\ tagrun' = [tagrun EXCEPT !.thread_id = Some(<<"thread", openai'.threads>>)]
             /\ pc' = "tag_batches"
             /\ UNCHANGED status
          \/ /\ IsNone(thread_id)
             /\ Abort
             /\ UNCHANGED <<meta, openai>>
    /\ UNCHANGED <<messages, files, tags, syncq, tasks, sem, hist>>

\* one iteration of the loop of line 490 whose request gets `result`
SubmitAndStore(result) ==
    /\ tags' = HandleResult(tags, result)
    /\ tagrun' = [tagrun EXCEPT !.i = @ + BATCH_SIZE]
    /\ openai' = [openai EXCEPT
                     !.requests = Append(@, Request(Batch(tagrun.articles_list, tagrun.i))),
                     !.responses = Append(@, result)]
    /\ UNCHANGED <<pc, status>>

\* an iteration whose response is any JSON object over `keys` with values in `values`
TagBatch(keys, values) ==
    /\ pc = "tag_batches"
    /\ tagrun.i < Len(tagrun.articles_list)
    /\ \E ks \in SUBSET keys : \E result \in [ks -> values] : SubmitAndStore(result)
    /\ UNCHANGED <<messages, files, meta, syncq, tasks, sem, hist>>

\* an iteration answered by a classifier that maps each article of the request
\* to its tags, looking at that article alone
TagBatchFn ==
    /\ pc = "tag_batches"
    /\ tagrun.i < Len(tagrun.articles_list)
    /\ LET request == Request(Batch(tagrun.articles_list, tagrun.i))
       IN SubmitAndStore([key \in DOMAIN request |-> openai.classify[request[key]]])
    /\ UNCHANGED <<messages, files, meta, syncq, tasks, sem, hist>>

\* a failed request followed by a rollback of the run's writes
TagsRolledBack(ts, before) == before

\* the table tags after a failed request: every store_tags_for_message of the
\* earlier iterations was committed on its own (line 458), nothing undoes it
TagsAfterFailure(ts, before) == ts

\* an iteration whose submit_articles raises: the exception leaves add_tags
TagBatchFail ==
    /\ pc = "tag_batches"
    /\ tagrun.i < Len(tagrun.articles_list)
    /\ openai' = [openai EXCEPT !.requests =
                     Append(@, Request(Batch(tagrun.articles_list, tagrun.i)))]
    /\ tags' = TagsAfterFailure(tags, tagrun.before)
    /\ Abort
    /\ UNCHANGED <<messages, files, meta, syncq, tasks, sem, hist>>

\* the loop of line 490 is over
TagEnd ==
    /\ pc = "tag_batches"
    /\ tagrun.i >= Len(tagrun.articles_list)
    /\ pc' = "idle"
    /\ status' = "ok"
    /\ tagrun' = NoTagRun
    /\ openai' = [openai EXCEPT !.requests = <<>>, !.responses = <<>>]
    /\ UNCHANGED <<messages, files, tags, meta, syncq, tasks, sem, hist>>

----------------------------------------------------------------------------
(* Inputs *)

NoMedia == [type |-> "None", attributes |-> <<>>, mime_type |-> None]

EmptyMedia == [type |-> "MessageMediaEmpty", attributes |-> <<>>, mime_type |-> None]

WebPage == [type |-> "MessageMediaWebPage", attributes |-> <<>>, mime_type |-> None]

Photo == [type |-> "MessageMediaPhoto", attributes |-> <<>>, mime_type |-> None]

\* a document attribute with a file_name, and one without (hasattr is false)
FileNameAttr(file_name) == [has_file_name |-> TRUE, file_name |-> file_name]

OtherAttr == [has_file_name |-> FALSE, file_name |-> <<>>]

Document(attributes, mime_type) ==
    [type |-> "MessageMediaDocument", attributes |-> attributes, mime_type |-> mime_type]

PdfMime == <<"application", "/", "pdf">>

\* the raw messages with the given ids, texts, dates and media
RawMessages(ids, texts, dates, medias) ==
    [id : ids, message : texts, date : dates, media : medias]

\* what client.get_messages can return: at most n of the messages, each id once,
\* most recent (highest id) first
Fetches(msgs, n) ==
    {s \in SeqsNoRepeat(msgs, n) : \A k \in 1..(Len(s) - 1) : s[k].id > s[k + 1].id}

\* the JSON keys of the ids 1..n
Keys(n) == {IntToStr(id) : id \in 1..n}

----------------------------------------------------------------------------
(* sync and fetch-media over a small store, in any order *)

SmallMessages ==
    RawMessages(1..MaxMsgId, {<<"a">>}, {"d1", "d2"},
                {NoMedia, Photo, Document(<<>>, Some(PdfMime))})

Transfers ==
    \/ \E t \in 1..Len(tasks) : Acquire(t)
    \/ \E t \in 1..Len(tasks) : ResolveOk(t)
    \/ \E t \in 1..Len(tasks) : ResolveFail(t)
    \/ \E t \in 1..Len(tasks) : Callback(t)
    \/ \E t \in 1..Len(tasks) : StreamEnd(t)
    \/ \E t \in 1..Len(tasks) : StreamFail(t)
    \/ DownloadEnd

Next ==
    \/ SyncStart(Fetches(SmallMessages, MaxFetch))
    \/ SyncStep
    \/ SyncEnd
    \/ DownloadStart
    \/ Transfers

Spec == Init /\ [][Next]_vars

----------------------------------------------------------------------------
(* One fetch-media run over many pending files *)

\* the body of the loop of get_messages (lines 243-244) on the tables
Ingest(store, msg) ==
    IF SaveRaises(store.messages, msg) THEN store
    ELSE [messages |-> SaveMessageToDb(store.messages, msg),
          files |-> IdentifyMediaFiles(store.files, msg)]

\* the loop of get_messages (lines 240-246) on the tables, msgs[1] first
RECURSIVE IngestAll(_, _)
IngestAll(store, msgs) ==
    IF Len(msgs) = 0 THEN store
    ELSE IngestAll(Ingest(store, Head(msgs)), Tail(msgs))

EmptyStore == [messages |-> {}, files |-> <<>>]

\* n messages with a photo each, most recent first
PhotoFetch(n) ==
    [k \in 1..n |-> [id |-> n + 1 - k, message |-> <<"a">>, date |-> "d1", media |-> Photo]]

\* the store after one sync of up to DOWNLOAD_CONCURRENCY + ExtraFiles photo messages
InitDownload ==
    \E n \in 0..(DOWNLOAD_CONCURRENCY + ExtraFiles) :
       LET store == IngestAll(EmptyStore, PhotoFetch(n))
       IN InitWith(store.messages, store.files, {}, {}, <<>>)

NextDownload ==
    \/ hist.runs = 0 /\ DownloadStart
    \/ Transfers

SpecDownload == InitDownload /\ [][NextDownload]_vars

\* the transfers that hold a slot: inside the async with block
InFlight == {t \in 1..Len(tasks) : tasks[t].st \in {"resolving", "streaming"}}

\* C2: during a fetch-media run over any number of pending files, in every
\* interleaving of the transfer tasks, at most DOWNLOAD_CONCURRENCY = 5 transfers
\* hold a slot; the semaphore counts the free slots, so a transfer gets one only
\* while fewer than 5 are in flight.
C2_AtMostFiveInFlight ==
    pc = "download" =>
       /\ Cardinality(InFlight) <= DOWNLOAD_CONCURRENCY
       /\ sem = DOWNLOAD_CONCURRENCY - Cardinality(InFlight)

\* C2 witness: more than 5 pending files, 5 transfers in flight, one task waiting
\* for a slot
C2_Witness ==
    /\ pc = "download"
    /\ Len(tasks) > DOWNLOAD_CONCURRENCY
    /\ Cardinality(InFlight) = DOWNLOAD_CONCURRENCY
    /\ \E t \in 1..Len(tasks) : tasks[t].st = "waiting"

----------------------------------------------------------------------------
(* Tag runs over a store of a few messages, the collaborator answering anything *)

HelloWorld == <<"hello", " ", "world">>

Link == <<"https", ":", "/", "/", "x">>

TagTexts == {<<>>, <<" ">>, HelloWorld, Link}

\* the message ids of these stores: 1..TagIds
TagIds == MaxMsgId + 2

TagValues == {None, Some(<<"greeting">>)}

\* the store after one sync of the messages n, ..., 1 without media
InitTag ==
    \E n \in 1..TagIds :
       \E fetch \in Fetches(RawMessages(1..n, TagTexts, {"d1"}, {NoMedia}), n) :
          /\ Len(fetch) = n
          /\ LET store == IngestAll(EmptyStore, fetch)
             IN InitWith(store.messages, store.files, {}, {}, <<>>)

NextTag ==
    \/ TagStart
    \/ TagAssistant
    \/ TagThread
    \/ TagBatch(Keys(TagIds), TagValues)
    \/ TagBatchFail
    \/ TagEnd

SpecTag == InitTag /\ [][NextTag]_vars

InTagRun == pc \in {"tag_assistant", "tag_thread", "tag_batches"}

\* the same runs, the collaborator choosing among two tag lists
NextRetag ==
    \/ TagStart
    \/ TagAssistant
    \/ TagThread
    \/ TagBatch(Keys(TagIds), TagValues \cup {Some(<<"other">>)})
    \/ TagBatchFail
    \/ TagEnd

SpecRetag == InitTag /\ [][NextRetag]_vars

\* C3: a tag run without overwrite leaves the tag list of every message that had
\* a tag record when the run started as it was, whatever the collaborator answers.
\* The code stores the value of every key of the response, in the request or not.
C3_TaggedUnchanged ==
    (InTagRun /\ ~tagrun.overwrite) =>
       \A m \in messages : \A r \in tagrun.before :
          r.message_id = m.message_id =>
             GetTagsForMessage(tags, m.message_id) = Some(r.tags)

\* the text of the stored message with this id
TextOf(message_id) == JsonMessage((CHOOSE m \in messages : m.message_id = message_id).json_data)

\* the responses of the run, in order, that give this id a list
ListsFor(message_id) ==
    {j \in 1..Len(openai.responses) :
        /\ IntToStr(message_id) \in DOMAIN openai.responses[j]
        /\ ~IsNone(openai.responses[j][IntToStr(message_id)])}

LastOf(js) == CHOOSE j \in js : \A i \in js : i <= j

\* the tag record an id must have: the list of the last response that gave it one,
\* or what it had when the run started
TagsExpected(message_id) ==
    IF ListsFor(message_id) = {} THEN GetTagsForMessage(tagrun.before, message_id)
    ELSE Some(JsonDumpsList(
            openai.responses[LastOf(ListsFor(message_id))][IntToStr(message_id)][1]))

ScenarioStore ==
    /\ {m.message_id : m \in messages} = {1, 2, 3}
    /\ TextOf(1) = HelloWorld /\ TextOf(2) = <<>> /\ TextOf(3) = Link

ScenarioResponse ==
    [key \in Keys(3) |-> IF key = IntToStr(1) THEN Some(<<"greeting">>) ELSE None]

\* C7: no request of a tag run holds a message whose text is empty after
\* trimming (a request holds the trimmed, non-empty text of each of its ids), and
\* the run writes a tag record exactly for the ids to which a response gives a
\* list, nothing for null. Scenario: candidates 1: "hello world", 2: "", 3:
\* "https://x", no overwrite, response {1: ["greeting"], 2: null, 3: null}: the
\* request is {1, 3}, only message 1 has a tag record, ["greeting"].
C7_RequestsAndRecords ==
    /\ \A j \in 1..Len(openai.requests) : \A key \in DOMAIN openai.requests[j] :
          /\ Truthy(openai.requests[j][key])
          /\ \E m \in messages :
                /\ IntToStr(m.message_id) = key
                /\ openai.requests[j][key] = Strip(JsonMessage(m.json_data))
    /\ pc = "tag_batches" =>
          \A m \in messages :
             GetTagsForMessage(tags, m.message_id) = TagsExpected(m.message_id)
    /\ (pc = "tag_batches" /\ ScenarioStore /\ ~tagrun.overwrite /\ tagrun.before = {}
           /\ openai.responses = <<ScenarioResponse>>) =>
          /\ openai.requests = <<[key \in {IntToStr(1), IntToStr(3)} |->
                                    IF key = IntToStr(1) THEN HelloWorld ELSE Link]>>
          /\ tags = {[message_id |-> 1, language |-> "", tags |-> <<"[", "greeting", "]">>]}

\* C7 witness: the scenario has run
C7_Witness ==
    /\ pc = "tag_batches"
    /\ ScenarioStore
    /\ ~tagrun.overwrite
    /\ tagrun.before = {}
    /\ openai.responses = <<ScenarioResponse>>
    /\ tagrun.i >= Len(tagrun.articles_list)

\* C8: over any sequence of tag runs the assistant and the thread are each
\* created at most once: a run creates one only when its id is not in meta and
\* saves the new id, and every later run works with the saved ids.
C8_SessionCreatedOnce ==
    /\ openai.assistants <= 1
    /\ openai.threads <= 1
    /\ GetMeta(meta, "assistant_id") =
          IF openai.assistants = 0 THEN None ELSE Some(<<"asst", 1>>)
    /\ GetMeta(meta, "thread_id") =
          IF openai.threads = 0 THEN None ELSE Some(<<"thread", 1>>)
    /\ pc \in {"tag_thread", "tag_batches"} => tagrun.ass_id = Some(<<"asst", 1>>)
    /\ pc = "tag_batches" => tagrun.thread_id = Some(<<"thread", 1>>)

\* C8 witness: a run that follows a run which stored tags is past the bootstrap
\* of the assistant, with the one assistant and the one thread created before
C8_Witness ==
    /\ pc = "tag_batches"
    /\ tagrun.before # {}
    /\ openai.assistants = 1
    /\ openai.threads = 1

----------------------------------------------------------------------------
(* Tag runs of several batches, the collaborator answering article by article *)

\* the sizes of the large stores: around each multiple of BATCH_SIZE
StoreSizes ==
    {k * BATCH_SIZE + d : k \in 0..MaxBatches, d \in {-1, 0, 1}} \cap (1..(MaxBatches * BATCH_SIZE + 1))

\* the text of message id in a large store: every gap-th one is blank (gap 0: none)
BatchText(id, gap) ==
    IF gap > 0 /\ id % gap = 0 THEN <<" ">>
    ELSE IF id % 2 = 0 THEN <<"a">>
    ELSE <<" ", "b", "\n">>

BatchFetch(n, gap) ==
    [k \in 1..n |-> [id |-> n + 1 - k, message |-> BatchText(n + 1 - k, gap),
                     date |-> "d1", media |-> NoMedia]]

\* the table messages after the loop of get_messages (lines 240-246) over messages
\* of distinct ids: the row that save_message_to_db writes for each of them
Synced(msgs) == UNION {SaveMessageToDb({}, msgs[k]) : k \in 1..Len(msgs)}

\* what a classifier can answer for an article
Classifiers == [{<<"a">>, <<"b">>} -> {None, Some(<<"x">>), Some(<<"y">>)}]

\* the store after one sync of n messages, and a classifier
InitBatch ==
    \E n \in StoreSizes : \E gap \in {0, 7} : \E classify \in Classifiers :
       InitWith(Synced(BatchFetch(n, gap)), <<>>, {}, {}, classify)

NextBatch ==
    \/ TagStart
    \/ TagAssistant
    \/ TagThread
    \/ TagBatchFn
    \/ TagBatchFail
    \/ TagEnd

SpecBatch == InitBatch /\ [][NextBatch]_vars

\* the table tags after a run that submits all the candidates in one request
SingleBatchTags ==
    LET request == Request(tagrun.articles_list)
    IN HandleResult(tagrun.before,
                    [key \in DOMAIN request |-> openai.classify[request[key]]])

\* C6: with a classifier whose answer for an article depends on that article
\* alone, a tag run that submits its candidates in consecutive batches of 50 ends
\* with the tag records (ids and lists) of a run that submits them all in one
\* batch, for any number of candidates.
C6_BatchesAsOneBatch ==
    (pc = "tag_batches" /\ tagrun.i >= Len(tagrun.articles_list)) => tags = SingleBatchTags

\* C6 witness: a run of three batches is over and has stored tags
C6_Witness ==
    /\ pc = "tag_batches"
    /\ tagrun.i >= Len(tagrun.articles_list)
    /\ Len(openai.requests) = 3
    /\ Len(tagrun.articles_list) = 2 * BATCH_SIZE + 1
    /\ Cardinality(tags) = 2 * BATCH_SIZE + 1

\* C10: when the request of a batch fails the command ends in failure: the failed
\* request is the last one submitted, and the tag records written for the
\* batches before it are in the store as their responses gave them (no rollback).
C10_FailureKeepsEarlierBatches ==
    (pc = "idle" /\ status = "fail" /\ Len(openai.requests) > 0) =>
       /\ Len(openai.requests) = Len(openai.responses) + 1
       /\ \A j \in 1..Len(openai.responses) : \A key \in DOMAIN openai.responses[j] :
             ~IsNone(openai.responses[j][key]) =>
                GetTagsForMessage(tags, DigitsToInt(key))
                   = Some(JsonDumpsList(openai.responses[j][key][1]))

\* C10 witness: the third request of a run has failed, the records of the first
\* two batches are stored
C10_Witness ==
    /\ pc = "idle"
    /\ status = "fail"
    /\ Len(openai.responses) = 2
    /\ Cardinality(tags) = 2 * BATCH_SIZE

----------------------------------------------------------------------------
(* Claims checked under Spec *)

FileRowsOf(message_id) == {k \in 1..Len(files) : files[k].message_id = message_id}

AllFilesDownloaded(message_id) ==
    \A k \in FileRowsOf(message_id) : files[k].downloaded = 1

\* C1: in every reachable state, for every message, the completion flag is true
\* if and only if every File row of the message has downloaded = true; a message
\* without File rows has the flag true as soon as it is ingested.
\* The code leaves file_downloaded at its DEFAULT 0 on every upsert and sets it
\* only in update_file_downloaded.
C1_FlagIffAllDownloaded ==
    \A m \in messages : (m.file_downloaded = 1) <=> AllFilesDownloaded(m.message_id)

RowsOf(message_id) == {r \in messages : r.message_id = message_id}

\* C5: UpsertMessage is an idempotent full replace: after any number of calls for
\* an id, with the same or another payload, there is exactly one row with that id,
\* it carries the payload and the timestamp of the last call, and neither the
\* insert nor the overwrite path raises (the row of the call is always written).
C5_UpsertReplaces ==
    /\ [](\A m \in messages : Cardinality(RowsOf(m.message_id)) = 1)
    /\ [][(pc = "sync" /\ Len(syncq) > 0) =>
            LET msg == Head(syncq)
            IN /\ Cardinality({r \in messages' : r.message_id = msg.id}) = 1
               /\ \A r \in messages' : r.message_id = msg.id =>
                     r.json_data = ToJson(msg) /\ r.date = msg.date]_vars

\* C5 witness: a row that was overwritten with another payload: the message has a
\* File row from an earlier upsert and its stored payload has no media
C5_Witness ==
    \E m \in messages :
       /\ m.json_data.media.type = "None"
       /\ m.date = "d2"
       /\ FileRowsOf(m.message_id) # {}

\* C9: update_file_downloaded marks the File row and recomputes the message's
\* completion flag in one step: during a fetch-media run, in every interleaving
\* of the transfer tasks, the flag of a message with files in transfer is true
\* exactly when none of its File rows is left undownloaded (true once the last
\* one is marked, not true while one is still undownloaded).
C9_FlagFollowsLastFile ==
    pc = "download" =>
       \A t \in 1..Len(tasks) : \A m \in RowsOf(tasks[t].message_id) :
          (m.file_downloaded = 1) <=> (CountUndownloaded(files, m.message_id) = 0)

\* C9 witness: two transfers of two files of one message are in flight together,
\* both have marked their file, and the flag is true
C9_Witness ==
    /\ pc = "download"
    /\ \E t, u \in 1..Len(tasks) :
          /\ tasks[t].message_id = tasks[u].message_id
          /\ tasks[t].file_path # tasks[u].file_path
          /\ tasks[t].st = "streaming" /\ tasks[u].st = "streaming"
          /\ tasks[t].marked /\ tasks[u].marked
          /\ \A m \in RowsOf(tasks[t].message_id) : m.file_downloaded = 1

----------------------------------------------------------------------------
(* Failed transfers *)

\* the File rows of the file of task t
RowsOfTask(fs, t) ==
    {k \in 1..Len(fs) : fs[k].message_id = tasks[t].message_id
                           /\ fs[k].file_path = tasks[t].file_path}

\* C11: when resolving the message or streaming the media of one file fails during
\* fetch-media (the steps ResolveFail and StreamFail: the exception is caught), the
\* slot of that transfer is released, the other tasks are left as they are, and a
\* File row of that file has downloaded = false and is returned by
\* get_files_to_download, so the next run transfers it again.
\* The code marks the file in the progress callback, before download_media
\* returns: an exception after the callback of the last chunk leaves it marked.
C11_FailedTransferStaysPending ==
    [][\A t \in 1..Len(tasks) :
          (ResolveFail(t) \/ StreamFail(t)) =>
             /\ sem' = sem + 1
             /\ \A u \in 1..Len(tasks) : u # t => tasks'[u] = tasks[u]
             /\ \E k \in RowsOfTask(files', t) : files'[k].downloaded = 0
             /\ \E j \in 1..Len(GetFilesToDownload(messages', files')) :
                   /\ GetFilesToDownload(messages', files')[j][1] = tasks[t].message_id
                   /\ GetFilesToDownload(messages', files')[j][2] = tasks[t].file_path]_vars

----------------------------------------------------------------------------
(* One sync into an empty store, over every kind of media *)

OctetMime == <<"octet">>

PngMime == <<"image", "/", "png">>

IngestMedias ==
    {NoMedia, EmptyMedia, WebPage, Photo,
     Document(<<>>, Some(PdfMime)),
     Document(<<>>, None),
     Document(<<>>, Some(OctetMime)),
     Document(<<>>, Some(<<>>)),
     Document(<<OtherAttr, FileNameAttr(<<"a", "/", "b", "?", ".txt">>)>>, Some(PngMime)),
     Document(<<FileNameAttr(<<>>)>>, Some(<<"x", "/", "y", "*">>))}

\* get_messages after client.get_messages returned `fetch`, on a fresh database
InitSyncing(fetches) ==
    \E fetch \in fetches :
       /\ messages = {}
       /\ files = <<>>
       /\ tags = {}
       /\ meta = {}
       /\ pc = "sync"
       /\ status = "ok"
       /\ syncq = fetch
       /\ tasks = <<>>
       /\ sem = 0
       /\ tagrun = NoTagRun
       /\ openai = [assistants |-> 0, threads |-> 0, requests |-> <<>>,
                    responses |-> <<>>, classify |-> <<>>]
       /\ hist = NoHist

InitIngest ==
    InitSyncing(Fetches(RawMessages(1..MaxIngest, {<<"a">>}, {"d1"}, IngestMedias), MaxIngest))

NextIngest ==
    \/ SyncStep
    \/ SyncStepRegisterFails
    \/ SyncEnd

SpecIngest == InitIngest /\ [][NextIngest]_vars

\* C12: during a sync run an exception of identify_media_files for one message
\* (a document whose attributes cannot be read, or register_file_in_db raising) is
\* caught: the iteration leaves the row that save_message_to_db wrote for the
\* message and registers nothing, the loop goes on with the next message (every
\* iteration upserts its message), and the run ends only when no message is left,
\* with success.
C12_MediaErrorIsCaught ==
    /\ [][(pc = "sync" /\ Len(syncq) > 0) =>
            LET msg == Head(syncq)
            IN /\ \E r \in messages' : r.message_id = msg.id /\ r.json_data = ToJson(msg)
               /\ syncq' = Tail(syncq)
               /\ pc' = "sync"
               /\ (MediaRaises(msg) \/ SyncStepRegisterFails) => files' = files]_vars
    /\ [][(pc = "sync" /\ pc' # "sync") =>
            (syncq = <<>> /\ pc' = "idle" /\ status' = "ok")]_vars

\* C12 witness: the run is over; a message whose document raised has its row and
\* no File row, and a message fetched after it has its row and its File row
C12_Witness ==
    /\ pc = "idle"
    /\ status = "ok"
    /\ \E m, n \in messages :
          /\ MediaRaises(m.json_data)
          /\ n.message_id < m.message_id
          /\ \A k \in 1..Len(files) : files[k].message_id # m.message_id
          /\ \E k \in 1..Len(files) : files[k].message_id = n.message_id

----------------------------------------------------------------------------
(* sync and fetch-media with store operations that raise sqlite3.Error *)

\* an iteration in which save_message_to_db raises: caught at line 245, the loop
\* goes on with the next message
SyncStepSaveFails ==
    /\ pc = "sync"
    /\ Len(syncq) > 0
    /\ syncq' = Rest(syncq)
    /\ UNCHANGED <<messages, files, tags, meta, pc, status, tasks, sem, tagrun, openai, hist>>

\* update_file_downloaded raises in the callback of the last chunk: the transaction
\* is rolled back, the exception leaves download_media and is caught at line 264
CallbackStoreFails(t) ==
    /\ pc = "download"
    /\ tasks[t].st = "streaming"
    /\ Leave(t)
    /\ UNCHANGED <<messages, files, tags, meta, pc, status, syncq, tagrun, openai, hist>>

\* get_files_to_download raises (line 273, outside any try): the command fails
DownloadStartStoreFails ==
    /\ pc = "idle"
    /\ status' = "fail"
    /\ UNCHANGED <<messages, files, tags, meta, pc, syncq, tasks, sem, tagrun, openai, hist>>

StoreFails ==
    \/ SyncStepSaveFails
    \/ SyncStepRegisterFails
    \/ \E t \in 1..Len(tasks) : CallbackStoreFails(t)
    \/ DownloadStartStoreFails

NextFault ==
    \/ Next
    \/ StoreFails

SpecFault == Init /\ [][NextFault]_vars

\* C13: a store I/O error raised by a store operation during a run is fatal: the
\* step in which the operation raises ends the command, in failure.
\* The handlers of lines 245, 220 and 264 catch Exception, sqlite3.Error included:
\* an error of save_message_to_db, register_file_in_db or update_file_downloaded
\* is logged as the error of one message or file and the run goes on.
C13_StoreErrorIsFatal ==
    [][StoreFails => (pc' = "idle" /\ status' = "fail")]_vars

----------------------------------------------------------------------------
(* Registration of files, under Spec *)

\* the media for which identify_media_files registers a file
Registers(msg) ==
    msg.media.type \in {"MessageMediaPhoto", "MessageMediaDocument"} /\ ~MediaRaises(msg)

\* the latest File row of a message
LastRowOf(message_id) ==
    CHOOSE k \in FileRowsOf(message_id) : \A j \in FileRowsOf(message_id) : j <= k

\* C14: register_file_in_db is not idempotent and nothing enforces uniqueness:
\* every ingestion of a message with a photo or a document appends one File row
\* with downloaded = false and changes no other row, so a sync over a message that
\* was ingested before with the same media leaves a second row with the same
\* (message id, path), whether the older row was downloaded or not.
C14_RegisterFileAppends ==
    [][(pc = "sync" /\ Len(syncq) > 0 /\ Registers(Head(syncq))) =>
          LET msg == Head(syncq)
              new == files'[Len(files')]
          IN /\ Len(files') = Len(files) + 1
             /\ \A k \in 1..Len(files) : files'[k] = files[k]
             /\ new.message_id = msg.id
             /\ new.downloaded = 0
             /\ (\E m \in messages : m.message_id = msg.id /\ m.json_data.media = msg.media) =>
                   /\ FileRowsOf(msg.id) # {}
                   /\ new.file_path = files[LastRowOf(msg.id)].file_path
                   /\ new.markdown_path = files[LastRowOf(msg.id)].markdown_path]_vars

\* C14 witness: two File rows with the same (message id, path), the older one
\* downloaded, the newer one not
C14_Witness ==
    /\ pc = "idle"
    /\ Len(files) = 2
    /\ files[1].message_id = files[2].message_id
    /\ files[1].file_path = files[2].file_path
    /\ files[1].downloaded = 1
    /\ files[2].downloaded = 0

----------------------------------------------------------------------------
(* One sync into an empty store, every store operation succeeding *)

NextClassify ==
    \/ SyncStep
    \/ SyncEnd

SpecClassify == InitIngest /\ [][NextClassify]_vars

\* the payload of a stored message
StoredMedia(m) == m.json_data.media

\* whether s ends with suffix
EndsWith(s, suffix) ==
    Len(s) >= Len(suffix) /\ SubSeq(s, Len(s) - Len(suffix) + 1, Len(s)) = suffix

\* C15: after a sync into an empty store over messages of distinct ids there is
\* one message row per message, exactly one File row, with downloaded = false, for
\* each message whose media is a photo or a document, and none for a message whose
\* media is absent or empty; for A (id 3) with a photo, B (id 2) without media and
\* C (id 1) with a document without file name and MIME type application/pdf, the
\* store holds 3 message rows and 2 File rows, of A and of C, and the file name of
\* C ends in .pdf.
\* A document whose mime_type is None registers nothing (see C16).
C15_SyncCreatesRows ==
    pc = "idle" =>
       /\ \A m \in messages : Cardinality(RowsOf(m.message_id)) = 1
       /\ \A m \in messages :
             /\ StoredMedia(m).type \in {"MessageMediaPhoto", "MessageMediaDocument"} =>
                   /\ Cardinality(FileRowsOf(m.message_id)) = 1
                   /\ \A k \in FileRowsOf(m.message_id) : files[k].downloaded = 0
             /\ StoredMedia(m).type \in {"None", "MessageMediaEmpty"} =>
                   FileRowsOf(m.message_id) = {}
       /\ (/\ {m.message_id : m \in messages} = {1, 2, 3}
           /\ \A m \in messages :
                 StoredMedia(m) = (CASE m.message_id = 3 -> Photo
                                     [] m.message_id = 2 -> NoMedia
                                     [] OTHER -> Document(<<>>, Some(PdfMime)))) =>
             /\ Cardinality(messages) = 3
             /\ Len(files) = 2
             /\ {files[k].message_id : k \in 1..Len(files)} = {1, 3}
             /\ \A k \in FileRowsOf(1) : EndsWith(files[k].file_path, <<".", "pdf">>)

\* C16: after a sync into an empty store, a message with a document that has no
\* file name attribute has one File row, named <id>_document.<extension>, where the
\* extension is what follows the last '/' of the MIME type, or "file" when the MIME
\* type is absent or has no '/'.
\* document.mime_type = None makes '/' in mime_type raise TypeError (line 213),
\* caught at line 220: the attachment is skipped.
C16_SynthesizedDocumentName ==
    pc = "idle" =>
       \A m \in messages :
          (StoredMedia(m).type = "MessageMediaDocument"
              /\ IsNone(FirstFileName(StoredMedia(m).attributes))) =>
             LET mime == StoredMedia(m).mime_type
                 extension ==
                     IF IsNone(mime) \/ \A k \in 1..Len(mime[1]) : mime[1][k] # "/"
                     THEN <<"file">>
                     ELSE Sanitize(LastSegment(mime[1]))
             IN /\ Cardinality(FileRowsOf(m.message_id)) = 1
                /\ \A k \in FileRowsOf(m.message_id) :
                      files[k].file_path =
                         FILES_DIR \o IntToStr(m.message_id) \o <<"_document", ".">> \o extension

----------------------------------------------------------------------------
(* One sync of one message whose file name is any short text *)

NameAtoms == IllegalAtoms \cup {"a", "_", "."}

RawNames == UNION {[1..n -> NameAtoms] : n \in 1..MaxName}

\* a photo, a document with the raw name as its file_name attribute, and a
\* document without file name whose MIME type ends with the raw name
SanitizeMedias ==
    {Photo}
       \cup {Document(<<FileNameAttr(name)>>, Some(PdfMime)) : name \in RawNames}
       \cup {Document(<<>>, Some(<<"x", "/">> \o name)) : name \in RawNames}

InitSanitize ==
    InitSyncing({<<msg>> : msg \in RawMessages({1}, {<<"a">>}, {"d1"}, SanitizeMedias)})

SpecSanitize == InitSanitize /\ [][NextClassify]_vars

\* the file name of a File row: its markdown path without "files/"
FileNameOf(f) ==
    SubSeq(f.markdown_path, Len(MARKDOWN_FILES_PATH) + 2, Len(f.markdown_path))

\* C17: the file name of every registered File row is the raw name (the file_name
\* attribute, or the synthesized <id>_document.<extension>) with every occurrence
\* of each of \ / * ? : " < > | replaced by '_' and every other character as it
\* was: it has the length of the raw name, is determined by it character by
\* character, and contains none of these characters; the path and the markdown
\* path are built from it.
C17_SanitizedFileNames ==
    \A k \in 1..Len(files) : \A m \in RowsOf(files[k].message_id) :
       LET forbidden == {"\\", "/", "*", "?", ":", "\"", "<", ">", "|"}
           raw == IF StoredMedia(m).type = "MessageMediaPhoto"
                  THEN IntToStr(m.message_id) \o <<"_photo", ".", "jpg">>
                  ELSE DocumentFileName(m.json_data)
           name == FileNameOf(files[k])
       IN /\ files[k].file_path = FilePath(name)
          /\ files[k].markdown_path = MARKDOWN_FILES_PATH \o <<"/">> \o name
          /\ Len(name) = Len(raw)
          /\ \A i \in 1..Len(raw) :
                name[i] = IF raw[i] \in forbidden THEN "_" ELSE raw[i]
          /\ \A i \in 1..Len(name) : name[i] \notin forbidden

\* C17 witness: a registered name in which two different illegal characters of the
\* raw name were replaced (a name that another raw name yields too)
C17_Witness ==
    /\ pc = "idle"
    /\ \E k \in 1..Len(files) : \E m \in RowsOf(files[k].message_id) :
          /\ StoredMedia(m).type = "MessageMediaDocument"
          /\ DocumentFileName(m.json_data) = <<"?", "*">>
          /\ FileNameOf(files[k]) = <<"_", "_">>

----------------------------------------------------------------------------
(* Messages the classifier gives no tags, under SpecTag *)

\* the messages with a non-empty text and no tag record in ts
Untagged(ts) ==
    {m.message_id : m \in {r \in messages : /\ Truthy(Strip(JsonMessage(r.json_data)))
                                             /\ IsNone(GetTagsForMessage(ts, r.message_id))}}

\* the ids of the first n candidates of the run
Candidates(n) ==
    {tagrun.articles_list[k][1] : k \in 1..Min(n, Len(tagrun.articles_list))}

\* C18: a message to which no response of a tag run gives a list (null, or no
\* answer) gains no tag record in that run; the candidates of a run without
\* overwrite are exactly the messages with a non-empty text and no tag record, so
\* such a message is a candidate of every later run without overwrite, and the
\* requests of the run submit it with its text, as long as it has no record.
C18_NullIsResubmitted ==
    /\ pc = "tag_batches" =>
          \A m \in messages :
             ListsFor(m.message_id) = {} =>
                GetTagsForMessage(tags, m.message_id)
                   = GetTagsForMessage(tagrun.before, m.message_id)
    /\ (InTagRun /\ ~tagrun.overwrite) =>
          Candidates(Len(tagrun.articles_list)) = Untagged(tagrun.before)
    /\ pc = "tag_batches" =>
          /\ Len(openai.requests) * BATCH_SIZE = tagrun.i
          /\ \A id \in Candidates(tagrun.i) :
                \E j \in 1..Len(openai.requests) :
                   /\ IntToStr(id) \in DOMAIN openai.requests[j]
                   /\ openai.requests[j][IntToStr(id)] = Strip(TextOf(id))

\* C18 witness: a run without overwrite that follows a run which stored tags: a
\* message with a non-empty text that the earlier run left without record is in
\* the request again, the answer for it is null again, and it still has no record
C18_Witness ==
    /\ pc = "tag_batches"
    /\ ~tagrun.overwrite
    /\ tagrun.before # {}
    /\ Len(openai.responses) = 1
    /\ \E id \in Untagged(tagrun.before) :
          /\ IntToStr(id) \in DOMAIN openai.requests[1]
          /\ IntToStr(id) \in DOMAIN openai.responses[1]
          /\ IsNone(openai.responses[1][IntToStr(id)])
          /\ id \in Untagged(tags)

----------------------------------------------------------------------------
(* What sets the downloaded flag of a file row, under Spec *)

\* the tasks of the file of row k
TasksOfRow(k) ==
    {t \in DOMAIN tasks : /\ tasks[t].message_id = files[k].message_id
                          /\ tasks[t].file_path = files[k].file_path}

\* C19: the downloaded flag of a file row becomes true only in a step of a
\* transfer of that file whose progress callback sees current == total, and in
\* that step the transfer is inside download_media before and after, holding its
\* slot; a row is registered with the flag false, and the step that ends a
\* transfer (by return or by exception, releasing the slot) changes no file row.
C19_OnlyLastChunkMarks ==
    [][/\ \A k \in DOMAIN files' :
             IF k \in DOMAIN files
             THEN (files[k].downloaded = 0 /\ files'[k].downloaded = 1) =>
                     /\ pc = "download"
                     /\ sem' = sem
                     /\ sem < DOWNLOAD_CONCURRENCY
                     /\ \E t \in TasksOfRow(k) :
                           /\ tasks[t].st = "streaming"
                           /\ tasks'[t].st = "streaming"
                           /\ tasks'[t].marked
             ELSE files'[k].downloaded = 0
       /\ \A t \in DOMAIN tasks :
             (t \in DOMAIN tasks' /\ tasks[t].st # "done" /\ tasks'[t].st = "done") =>
                /\ files' = files
                /\ sem' = sem + 1]_vars

\* C19 witness: a transfer whose callback has seen current == total is still inside
\* download_media, holding its slot, and its row is marked; another transfer has
\* ended without such a callback and its row is still not marked
C19_Witness ==
    /\ pc = "download"
    /\ sem < DOWNLOAD_CONCURRENCY
    /\ \E k \in DOMAIN files : \E t \in TasksOfRow(k) :
          /\ tasks[t].st = "streaming"
          /\ tasks[t].marked
          /\ files[k].downloaded = 1
    /\ \E k \in DOMAIN files : \E t \in TasksOfRow(k) :
          /\ tasks[t].st = "done"
          /\ ~tasks[t].marked
          /\ files[k].downloaded = 0

----------------------------------------------------------------------------
(* Termination of a fetch-media run, under SpecDownloadFair *)

\* a waiting task is resumed by the event loop while a slot is free
Admit == \E t \in DOMAIN tasks : Acquire(t)

\* a request or a transfer in progress returns or raises
Finish ==
    \E t \in DOMAIN tasks : ResolveOk(t) \/ ResolveFail(t) \/ StreamEnd(t) \/ StreamFail(t)

\* SpecDownload where the event loop runs every task that can run, every request
\* and every transfer comes to an end, and asyncio.gather returns once every task
\* has finished
SpecDownloadFair ==
    /\ SpecDownload
    /\ WF_vars(Admit)
    /\ WF_vars(Finish)
    /\ WF_vars(DownloadEnd)

\* every task of the run has left the async with block and every slot is free
AllTasksDone ==
    /\ \A t \in DOMAIN tasks : tasks[t].st = "done"
    /\ sem = DOWNLOAD_CONCURRENCY

\* C20: every started request and transfer coming to an end, a fetch-media run
\* terminates: it reaches the point where every task has finished and every slot
\* is released, and then completes. A task goes from waiting only into the block,
\* taking a slot, finishes only from inside the block, releasing the slot, and
\* makes no second attempt; the command completes only when every task has
\* finished.
C20_FetchMediaTerminates ==
    /\ (pc = "download") ~> (pc = "download" /\ AllTasksDone)
    /\ (pc = "download") ~> (pc = "idle")
    /\ [][/\ \A t \in DOMAIN tasks :
                t \in DOMAIN tasks' =>
                   /\ tasks[t].st = "waiting" => tasks'[t].st \in {"waiting", "resolving"}
                   /\ (tasks[t].st = "waiting" /\ tasks'[t].st = "resolving") =>
                         (sem > 0 /\ sem' = sem - 1)
                   /\ (tasks[t].st # "done" /\ tasks'[t].st = "done") => sem' = sem + 1
                   /\ tasks[t].st = "done" => tasks'[t].st = "done"
          /\ (pc = "download" /\ pc' = "idle") => AllTasksDone]_vars

\* C20 witness: a run over more pending files than slots has completed; transfers
\* were started, one marked its file and one ended without marking it
C20_Witness ==
    /\ pc = "idle"
    /\ hist.runs = 1
    /\ hist.started
    /\ Len(files) > DOWNLOAD_CONCURRENCY
    /\ \E k \in DOMAIN files : files[k].downloaded = 1
    /\ \E k \in DOMAIN files : files[k].downloaded = 0

----------------------------------------------------------------------------
(* sync, fetch-media and tag runs over a small store, in any order *)

NextAll ==
    \/ Next
    \/ TagStart
    \/ TagAssistant
    \/ TagThread
    \/ TagBatch(Keys(MaxMsgId), TagValues)
    \/ TagBatchFail
    \/ TagEnd

SpecAll == Init /\ [][NextAll]_vars

\* a step of add_tags
TagRunStep == TagStart \/ InTagRun

\* a step of download_files
DownloadRunStep == DownloadStart \/ pc = "download"

\* the rows of meta other than the two session entries
OtherMeta(mt) == {r \in mt : r.key \notin {"assistant_id", "thread_id"}}

\* row `new` is row `old` with at most its flag `field` raised from 0 to 1
FlagRaised(old, new, field) ==
    /\ new = [old EXCEPT ![field] = new[field]]
    /\ old[field] <= new[field]
    /\ new[field] \in {0, 1}

\* C21: a step of a tag run changes no message row and no file row, and in meta
\* only the entries assistant_id and thread_id; a step of a fetch-media run changes
\* no tag and no meta row, keeps every file row and every message row in place,
\* none added and none removed, and changes in them only the flags downloaded
\* and file_downloaded, from 0 to 1.
C21_RunsKeepTheirFrame ==
    [][/\ TagRunStep =>
             /\ messages' = messages
             /\ files' = files
             /\ OtherMeta(meta') = OtherMeta(meta)
       /\ DownloadRunStep =>
             /\ tags' = tags
             /\ meta' = meta
             /\ Len(files') = Len(files)
             /\ \A k \in 1..Len(files) : FlagRaised(files[k], files'[k], "downloaded")
             /\ Cardinality(messages') = Cardinality(messages)
             /\ \A m \in messages :
                   \E n \in messages' : FlagRaised(m, n, "file_downloaded")]_vars

\* C21 witness: after a sync, a fetch-media run has raised a file flag and a message
\* flag, and a tag run has written a tag record and the two session entries
C21_Witness ==
    /\ pc = "idle"
    /\ \E k \in 1..Len(files) : files[k].downloaded = 1
    /\ \E m \in messages : m.file_downloaded = 1
    /\ tags # {}
    /\ ~IsNone(GetMeta(meta, "assistant_id"))
    /\ ~IsNone(GetMeta(meta, "thread_id"))

----------------------------------------------------------------------------
(* The completion flag of a message and its file rows, under SpecAll *)

\* the stored flag of the message, 0 when the message is not stored
FlagOf(ms, message_id) ==
    IF \E r \in ms : r.message_id = message_id
    THEN (CHOOSE r \in ms : r.message_id = message_id).file_downloaded
    ELSE 0

\* C22: in every state reachable by sync, fetch-media and tag runs in any order, a
\* message whose file_downloaded is 1 has no file row with downloaded = 0; the
\* flag goes from 0 to 1 only in a step of a fetch-media run that marks a file row
\* of the message and leaves it no row with downloaded = 0; and a step that adds
\* a file row for a message is a step of the sync loop that leaves the flag of
\* that message 0.
C22_FlagImpliesAllDownloaded ==
    /\ [](\A m \in messages :
             m.file_downloaded = 1 => CountUndownloaded(files, m.message_id) = 0)
    /\ [][/\ \A m \in messages' :
                (FlagOf(messages, m.message_id) = 0 /\ m.file_downloaded = 1) =>
                   /\ pc = "download"
                   /\ \E k \in 1..Len(files) :
                         /\ files[k].message_id = m.message_id
                         /\ files[k].downloaded = 0
                         /\ files'[k].downloaded = 1
                   /\ CountUndownloaded(files', m.message_id) = 0
          /\ \A k \in 1..Len(files') :
                k > Len(files) =>
                   /\ pc = "sync"
                   /\ files'[k].downloaded = 0
                   /\ FlagOf(messages', files'[k].message_id) = 0
                   /\ \E m \in messages' : m.message_id = files'[k].message_id]_vars

\* C22 witness: the flag of a message is 1 and the message has two file rows, both
\* downloaded: the second row was registered by a second sync of the message,
\* whose upsert left the flag 0 until the last of the rows was marked
C22_Witness ==
    /\ pc = "idle"
    /\ \E m \in messages :
          /\ m.file_downloaded = 1
          /\ \E j, k \in 1..Len(files) :
                /\ j < k
                /\ files[j].message_id = m.message_id
                /\ files[k].message_id = m.message_id
                /\ files[j].downloaded = 1
                /\ files[k].downloaded = 1

====
